---- MODULE Spec2Model ----
(***************************************************************************)
(* Model of security_constraints/main.py: the pipeline of main() (fetch,   *)
(* filter, sort, header, one line per vulnerability, return code, closing  *)
(* of the output stream) and the pure functions it is built from.          *)
(*                                                                         *)
(* A Python str is a sequence of characters; a character is a one-letter   *)
(* TLA+ string.  NumericOther stands for a character that str.isnumeric    *)
(* accepts and that is no ASCII digit (such as U+00BD, VULGAR FRACTION ONE *)
(* HALF).                                                                  *)
(***************************************************************************)
EXTENDS Integers, Sequences, FiniteSets, TLC

VARIABLES
    pc,               \* position of main()
    args,             \* the ArgumentNamespace returned by get_args()
    output,           \* main's local `output`: None or the stream
    stream,           \* the stream argparse opened: [opened, closed, tty, written]
    config,           \* the Configuration: [ignore_ids]
    apis,             \* the list of sources; a source is named by its index
    queried,          \* how many get_vulnerabilities() calls were made
    fetched,          \* `vulnerabilities` as bound at line 269
    filtered,         \* `vulnerabilities` as bound at line 270
    vulnerabilities,  \* `vulnerabilities` as bound at line 271
    idx,              \* how many items the for loop of line 275 has processed
    exc,              \* the exception raised: [type, at, api], api the source that raised
    ret,              \* the value main() returned
    unit              \* a direct call of one function: [fn, arg, done, ret]

vars == << pc, args, output, stream, config, apis, queried, fetched, filtered,
           vulnerabilities, idx, exc, ret, unit >>

mainVars == << pc, args, output, stream, config, apis, queried, fetched,
               filtered, vulnerabilities, idx, exc, ret >>

None == "None"

(***************************************************************************)
(* Bounds.                                                                 *)
(***************************************************************************)
MaxVerLen == 2      \* longest version string of a generated clause
MaxFetched == 3     \* most vulnerabilities all sources return in one run

(***************************************************************************)
(* Python's str methods, as far as main.py uses them.                      *)
(***************************************************************************)
NumericOther == "U+00BD"
Digits == {"0", "1", "2", "3", "4", "5", "6", "7", "8", "9"}
NumericChars == Digits \cup {NumericOther}
Whitespace == {" ", "\t", "\n"}

\* c in s
contains(s, c) == \E i \in 1..Len(s) : s[i] = c

\* s.startswith(p)
startswith(s, p) == Len(s) >= Len(p) /\ SubSeq(s, 1, Len(p)) = p

\* s[n:]
slice_from(s, n) == SubSeq(s, n + 1, Len(s))

RECURSIVE lstrip(_, _)
lstrip(s, cs) == IF s # << >> /\ Head(s) \in cs THEN lstrip(Tail(s), cs) ELSE s

RECURSIVE rstrip(_, _)
rstrip(s, cs) ==
    IF s # << >> /\ s[Len(s)] \in cs
    THEN rstrip(SubSeq(s, 1, Len(s) - 1), cs)
    ELSE s

\* s.strip(chars): characters of cs removed from both ends only
strip_chars(s, cs) == rstrip(lstrip(s, cs), cs)

\* s.strip(): whitespace removed from both ends
strip(s) == strip_chars(s, Whitespace)

\* s.split(c) for a one-character separator
RECURSIVE split(_, _)
split(s, c) ==
    IF ~contains(s, c)
    THEN << s >>
    ELSE LET i == CHOOSE k \in 1..Len(s) :
                      s[k] = c /\ \A j \in 1..(k - 1) : s[j] # c
         IN  << SubSeq(s, 1, i - 1) >> \o split(SubSeq(s, i + 1, Len(s)), c)

\* s.replace(c, "")
remove_char(s, c) == SelectSeq(s, LAMBDA x : x # c)

\* s.isnumeric(): at least one character and every character numeric
isnumeric(s) == s # << >> /\ \A i \in 1..Len(s) : s[i] \in NumericChars

\* Python's < on str: lexicographic by code point, a proper prefix is smaller
CodePoint(c) ==
    CASE c = "B" -> 66
      [] c = "a" -> 97
      [] c = "b" -> 98

RECURSIVE str_less(_, _)
str_less(a, b) ==
    IF b = << >> THEN FALSE
    ELSE IF a = << >> THEN TRUE
    ELSE IF Head(a) = Head(b) THEN str_less(Tail(a), Tail(b))
    ELSE CodePoint(Head(a)) < CodePoint(Head(b))

(***************************************************************************)
(* get_safe_version_constraints                                            *)
(***************************************************************************)
\* mutant: the first clause of a two-clause range is taken
OperativeClause_first(vulnerable_range) ==
    IF contains(vulnerable_range, ",")
    THEN strip(split(vulnerable_range, ",")[1])
    ELSE strip(vulnerable_range)

\* lines 76-84: vulnerable_spec
OperativeClause(vulnerable_range) ==
    IF contains(vulnerable_range, ",")
    THEN LET parts == split(vulnerable_range, ",")
         IN  strip(parts[Len(parts)])
    ELSE strip(vulnerable_range)

\* mutant: "< v" is inverted to ">v" instead of ">=v"
SafeSpecs_strict(vulnerable_spec) ==
    IF startswith(vulnerable_spec, << "=", " " >>)
    THEN << << "!", "=" >> \o slice_from(vulnerable_spec, 2) >>
    ELSE IF startswith(vulnerable_spec, << "<", "=", " " >>)
    THEN << << ">" >> \o slice_from(vulnerable_spec, 3) >>
    ELSE IF startswith(vulnerable_spec, << "<", " " >>)
    THEN << << ">" >> \o slice_from(vulnerable_spec, 2) >>
    ELSE IF startswith(vulnerable_spec, << ">", "=", " " >>)
    THEN << << "<" >> \o slice_from(vulnerable_spec, 3) >>
    ELSE << >>

\* lines 74, 86-93: safe_specs
SafeSpecs(vulnerable_spec) ==
    IF startswith(vulnerable_spec, << "=", " " >>)
    THEN << << "!", "=" >> \o slice_from(vulnerable_spec, 2) >>
    ELSE IF startswith(vulnerable_spec, << "<", "=", " " >>)
    THEN << << ">" >> \o slice_from(vulnerable_spec, 3) >>
    ELSE IF startswith(vulnerable_spec, << "<", " " >>)
    THEN << << ">", "=" >> \o slice_from(vulnerable_spec, 2) >>
    ELSE IF startswith(vulnerable_spec, << ">", "=", " " >>)
    THEN << << "<" >> \o slice_from(vulnerable_spec, 3) >>
    ELSE << >>

get_safe_version_constraints(vulnerability) ==
    [ package    |-> vulnerability.package,
      specifiers |-> SafeSpecs(OperativeClause(vulnerability.vulnerable_range)) ]

(***************************************************************************)
(* are_constraints_pip_friendly                                            *)
(***************************************************************************)
StripSet == {"<", ">", "=", "!", " "}

\* mutant: an empty string of digits passes
PartIsFriendly_empty_ok(part) ==
    \/ startswith(part, << "=" >>)
    \/ \A i \in 1..Len(strip_chars(part, StripSet)) :
           strip_chars(part, StripSet)[i] \in NumericChars \cup {"."}

\* lines 110-113: one pass of the loop body; FALSE is the `return False`
PartIsFriendly(part) ==
    \/ startswith(part, << "=" >>)
    \/ isnumeric(remove_char(strip_chars(part, StripSet), "."))

\* lines 109-120
are_constraints_pip_friendly(constraints) ==
    \A i \in 1..Len(constraints.specifiers) :
        PartIsFriendly(constraints.specifiers[i])

(***************************************************************************)
(* filter_vulnerabilities, sort_vulnerabilities, sorted                    *)
(***************************************************************************)
in_list(x, list) == \E i \in 1..Len(list) : list[i] = x

\* mutant: the ignore list is applied the wrong way round
filter_vulnerabilities_keep_ignored(cfg, vulns) ==
    IF cfg.ignore_ids # << >>
    THEN SelectSeq(vulns, LAMBDA v : in_list(v.identifier, cfg.ignore_ids))
    ELSE vulns

\* lines 47-56
filter_vulnerabilities(cfg, vulns) ==
    IF cfg.ignore_ids # << >>
    THEN SelectSeq(vulns, LAMBDA v : ~in_list(v.identifier, cfg.ignore_ids))
    ELSE vulns

\* mutant: an item is placed before the items of the same package
InsertByPackage_before_equal(s, v) ==
    LET k == Cardinality({ i \in 1..Len(s) : str_less(s[i].package, v.package) })
    IN  SubSeq(s, 1, k) \o << v >> \o SubSeq(s, k + 1, Len(s))

\* sorted() is stable: an item goes behind every item whose key is not greater
InsertByPackage(s, v) ==
    LET k == Cardinality({ i \in 1..Len(s) : ~str_less(v.package, s[i].package) })
    IN  SubSeq(s, 1, k) \o << v >> \o SubSeq(s, k + 1, Len(s))

RECURSIVE SortedPrefix(_, _)
SortedPrefix(vulns, n) ==
    IF n = 0 THEN << >> ELSE InsertByPackage(SortedPrefix(vulns, n - 1), vulns[n])

\* lines 59-63: sorted(vulnerabilities, key=lambda v: v.package)
sort_vulnerabilities(vulns) == SortedPrefix(vulns, Len(vulns))

\* sorted(list of str), lines 258-259
InsertStr(s, x) ==
    LET k == Cardinality({ i \in 1..Len(s) : ~str_less(x, s[i]) })
    IN  SubSeq(s, 1, k) \o << x >> \o SubSeq(s, k + 1, Len(s))

RECURSIVE SortedStrPrefix(_, _)
SortedStrPrefix(list, n) ==
    IF n = 0 THEN << >> ELSE InsertStr(SortedStrPrefix(list, n - 1), list[n])

sorted(list) == SortedStrPrefix(list, Len(list))

(***************************************************************************)
(* The values a run is given.                                              *)
(***************************************************************************)
RECURSIVE SeqsUpTo(_, _)
SeqsUpTo(S, n) ==
    IF n = 0 THEN { << >> }
    ELSE LET shorter == SeqsUpTo(S, n - 1)
         IN  shorter \cup { Append(s, x) : s \in { t \in shorter : Len(t) = n - 1 }, x \in S }

SecurityVulnerability(identifier, package, vulnerable_range) ==
    [ identifier |-> identifier, package |-> package,
      vulnerable_range |-> vulnerable_range ]

\* The vulnerabilities the sources know (name and severity play no part in
\* main.py's logic beyond being printed).  Identifiers "a" and "b"; packages
\* "Bb" < "a" < "ab" in Python's order; ranges "< 1", "> 1" and "= 1a".
\* Every package occurs with every range and with every identifier, and
\* every range with every identifier.
RunVulnerabilities ==
    LET lt == << "<", " ", "1" >>
        gt == << ">", " ", "1" >>
        eq == << "=", " ", "1", "a" >>
        Bb == << "B", "b" >>
        a  == << "a" >>
        ab == << "a", "b" >>
    IN  { SecurityVulnerability(<< "a" >>, Bb, lt),
          SecurityVulnerability(<< "b" >>, Bb, gt),
          SecurityVulnerability(<< "a" >>, Bb, eq),
          SecurityVulnerability(<< "b" >>, a, lt),
          SecurityVulnerability(<< "a" >>, a, gt),
          SecurityVulnerability(<< "b" >>, a, eq),
          SecurityVulnerability(<< "a" >>, ab, lt),
          SecurityVulnerability(<< "b" >>, ab, gt),
          SecurityVulnerability(<< "a" >>, ab, eq) }

ConfigFileIgnoreIds == { << >>, << << "a" >> >> }
ArgIgnoreIds == { << >>, << << "b" >>, << "a" >> >> }
ApiCounts == { 1, 2 }

NoCall == [ fn |-> None, arg |-> None, done |-> FALSE, ret |-> None ]
NoExc == [ type |-> None, at |-> None, api |-> 0 ]
Header == [ kind |-> "header" ]

(***************************************************************************)
(* main()                                                                  *)
(***************************************************************************)
MainInit ==
    /\ pc = "get_args"
    /\ args = None
    /\ output = None
    /\ stream = [ opened |-> FALSE, closed |-> FALSE, tty |-> None, written |-> << >> ]
    /\ config = None
    /\ apis = << >>
    /\ queried = 0
    /\ fetched = << >>
    /\ filtered = << >>
    /\ vulnerabilities = << >>
    /\ idx = 0
    /\ exc = NoExc
    /\ ret = None

Init == MainInit /\ unit = NoCall

\* line 247; argparse's FileType opens the stream while it parses
GetArgs ==
    /\ pc = "get_args"
    /\ \E version \in BOOLEAN, dump_config \in BOOLEAN, ignore_ids \in ArgIgnoreIds :
           args' = [ version |-> version, dump_config |-> dump_config,
                     ignore_ids |-> ignore_ids, output |-> "stream" ]
    /\ stream' = [ stream EXCEPT !.opened = TRUE ]
    /\ pc' = "check_version"
    /\ UNCHANGED << output, config, apis, queried, fetched, filtered,
                    vulnerabilities, idx, exc, ret, unit >>

\* line 247: argparse ends the process (usage error, --help) by SystemExit,
\* which no except clause of main catches; the stream may be open already
GetArgsSystemExit ==
    /\ pc = "get_args"
    /\ \E opened \in BOOLEAN : stream' = [ stream EXCEPT !.opened = opened ]
    /\ exc' = [ type |-> "SystemExit", at |-> "get_args", api |-> 0 ]
    /\ pc' = "finally"
    /\ UNCHANGED << args, output, config, apis, queried, fetched, filtered,
                    vulnerabilities, idx, ret, unit >>

\* lines 248-250
ReturnVersion ==
    /\ pc = "check_version"
    /\ args.version
    /\ ret' = 0
    /\ pc' = "finally"
    /\ UNCHANGED << args, output, stream, config, apis, queried, fetched,
                    filtered, vulnerabilities, idx, exc, unit >>

\* lines 251-256
BindOutput ==
    /\ pc = "check_version"
    /\ ~args.version
    /\ output' = args.output
    /\ IF args.output = None
       THEN /\ exc' = [ type |-> "Exception", at |-> "output", api |-> 0 ]
            /\ pc' = "except"
       ELSE /\ exc' = exc
            /\ pc' = "get_config"
    /\ UNCHANGED << args, stream, config, apis, queried, fetched, filtered,
                    vulnerabilities, idx, ret, unit >>

\* lines 257-259
GetConfig ==
    /\ pc = "get_config"
    /\ \E file_ids \in ConfigFileIgnoreIds :
           config' = [ ignore_ids |-> file_ids \o sorted(args.ignore_ids) ]
    /\ pc' = "check_dump_config"
    /\ UNCHANGED << args, output, stream, apis, queried, fetched, filtered,
                    vulnerabilities, idx, exc, ret, unit >>

\* line 257: the file cannot be read (an OSError or a yaml error) or holds an
\* unsupported key (a SecurityConstraintsError)
GetConfigRaises ==
    /\ pc = "get_config"
    /\ \E type \in { "SecurityConstraintsError", "Exception" } :
           exc' = [ type |-> type, at |-> "get_config", api |-> 0 ]
    /\ pc' = "except"
    /\ UNCHANGED << args, output, stream, config, apis, queried, fetched,
                    filtered, vulnerabilities, idx, ret, unit >>

\* lines 261-263
DumpConfig ==
    /\ pc = "check_dump_config"
    /\ args.dump_config
    /\ ret' = 0
    /\ pc' = "finally"
    /\ UNCHANGED << args, output, stream, config, apis, queried, fetched,
                    filtered, vulnerabilities, idx, exc, unit >>

\* lines 265-267; the function is the place the sources are configured, and
\* fetch_vulnerabilities takes any sequence of them
get_security_vulnerability_database_apis ==
    /\ pc = "check_dump_config"
    /\ ~args.dump_config
    /\ \E n \in ApiCounts : apis' = [ i \in 1..n |-> i ]
    /\ pc' = "fetch"
    /\ UNCHANGED << args, output, stream, config, queried, fetched, filtered,
                    vulnerabilities, idx, exc, ret, unit >>

\* mutant: a source's SecurityConstraintsError is swallowed by the loop
FetchRaises_swallowed ==
    /\ pc = "fetch"
    /\ queried < Len(apis)
    /\ queried' = queried + 1
    /\ exc' = [ type |-> "SecurityConstraintsError", at |-> "fetch", api |-> queried + 1 ]
    /\ pc' = "fetch"
    /\ UNCHANGED << args, output, stream, config, apis, fetched, filtered,
                    vulnerabilities, idx, ret, unit >>

\* lines 41-43, one pass of the loop: the source answers
FetchNext ==
    /\ pc = "fetch"
    /\ queried < Len(apis)
    /\ queried' = queried + 1
    /\ \E batch \in SeqsUpTo(RunVulnerabilities, MaxFetched - Len(fetched)) :
           fetched' = fetched \o batch
    /\ UNCHANGED << pc, args, output, stream, config, apis, filtered,
                    vulnerabilities, idx, exc, ret, unit >>

\* line 43: get_vulnerabilities() raises; nothing in fetch_vulnerabilities
\* catches it
FetchRaises ==
    /\ pc = "fetch"
    /\ queried < Len(apis)
    /\ queried' = queried + 1
    /\ \E type \in { "SecurityConstraintsError", "Exception" } :
           exc' = [ type |-> type, at |-> "fetch", api |-> queried + 1 ]
    /\ pc' = "except"
    /\ UNCHANGED << args, output, stream, config, apis, fetched, filtered,
                    vulnerabilities, idx, ret, unit >>

\* lines 44, 269-270
FilterVulnerabilities ==
    /\ pc = "fetch"
    /\ queried = Len(apis)
    /\ filtered' = filter_vulnerabilities(config, fetched)
    /\ pc' = "sort"
    /\ UNCHANGED << args, output, stream, config, apis, queried, fetched,
                    vulnerabilities, idx, exc, ret, unit >>

\* line 271
SortVulnerabilities ==
    /\ pc = "sort"
    /\ vulnerabilities' = sort_vulnerabilities(filtered)
    /\ pc' = "write_header"
    /\ UNCHANGED << args, output, stream, config, apis, queried, fetched,
                    filtered, idx, exc, ret, unit >>

\* mutant: the header is written before the sources are queried
WriteHeader_early ==
    /\ pc = "fetch"
    /\ queried = 0
    /\ stream.written = << >>
    /\ stream' = [ stream EXCEPT !.written = Append(@, Header) ]
    /\ UNCHANGED << pc, args, output, config, apis, queried, fetched, filtered,
                    vulnerabilities, idx, exc, ret, unit >>

\* lines 273-274
WriteHeader ==
    /\ pc = "write_header"
    /\ stream' = [ stream EXCEPT !.written = Append(@, Header) ]
    /\ pc' = "loop"
    /\ UNCHANGED << args, output, config, apis, queried, fetched, filtered,
                    vulnerabilities, idx, exc, ret, unit >>

\* lines 275-282, one pass of the loop; format_constraints_file_line (lines
\* 148-153) raises AssertionError when the packages differ
ProcessVulnerability ==
    /\ pc = "loop"
    /\ idx < Len(vulnerabilities)
    /\ idx' = idx + 1
    /\ LET vulnerability == vulnerabilities[idx + 1]
           constraints == get_safe_version_constraints(vulnerability)
       IN  IF ~are_constraints_pip_friendly(constraints)
           THEN UNCHANGED << stream, exc, pc >>
           ELSE IF constraints.package # vulnerability.package
           THEN /\ exc' = [ type |-> "Exception", at |-> "format", api |-> 0 ]
                /\ pc' = "except"
                /\ UNCHANGED stream
           ELSE /\ stream' = [ stream EXCEPT !.written =
                                 Append(@, [ kind |-> "data",
                                             constraints |-> constraints,
                                             vulnerability |-> vulnerability ]) ]
                /\ UNCHANGED << exc, pc >>
    /\ UNCHANGED << args, output, config, apis, queried, fetched, filtered,
                    vulnerabilities, ret, unit >>

\* lines 291-292
ReturnZero ==
    /\ pc = "loop"
    /\ idx = Len(vulnerabilities)
    /\ ret' = 0
    /\ pc' = "finally"
    /\ UNCHANGED << args, output, stream, config, apis, queried, fetched,
                    filtered, vulnerabilities, idx, exc, unit >>

\* lines 283-285
HandleSecurityConstraintsError ==
    /\ pc = "except"
    /\ exc.type = "SecurityConstraintsError"
    /\ ret' = 1
    /\ pc' = "finally"
    /\ UNCHANGED << args, output, stream, config, apis, queried, fetched,
                    filtered, vulnerabilities, idx, exc, unit >>

\* lines 286-290
HandleException ==
    /\ pc = "except"
    /\ exc.type = "Exception"
    /\ ret' = 2
    /\ pc' = "finally"
    /\ UNCHANGED << args, output, stream, config, apis, queried, fetched,
                    filtered, vulnerabilities, idx, exc, unit >>

\* mutant: the stream is never closed
Finally_no_close ==
    /\ pc = "finally"
    /\ \E tty \in (IF stream.opened THEN BOOLEAN ELSE { None }) :
           stream' = [ stream EXCEPT !.tty = tty ]
    /\ pc' = IF exc.type = "SystemExit" THEN "raised" ELSE "returned"
    /\ UNCHANGED << args, output, config, apis, queried, fetched, filtered,
                    vulnerabilities, idx, exc, ret, unit >>

\* lines 293-295; isatty() tells what kind of stream the environment gave
Finally ==
    /\ pc = "finally"
    /\ \E tty \in (IF stream.opened THEN BOOLEAN ELSE { None }) :
           stream' = [ stream EXCEPT !.tty = tty,
                                     !.closed = (output # None /\ tty = FALSE) ]
    /\ pc' = IF exc.type = "SystemExit" THEN "raised" ELSE "returned"
    /\ UNCHANGED << args, output, config, apis, queried, fetched, filtered,
                    vulnerabilities, idx, exc, ret, unit >>

Next ==
    \/ GetArgs
    \/ GetArgsSystemExit
    \/ ReturnVersion
    \/ BindOutput
    \/ GetConfig
    \/ GetConfigRaises
    \/ DumpConfig
    \/ get_security_vulnerability_database_apis
    \/ FetchNext
    \/ FetchRaises
    \/ FilterVulnerabilities
    \/ SortVulnerabilities
    \/ WriteHeader
    \/ ProcessVulnerability
    \/ ReturnZero
    \/ HandleSecurityConstraintsError
    \/ HandleException
    \/ Finally

Spec == Init /\ [][Next]_vars

(***************************************************************************)
(* Direct calls of get_safe_version_constraints and of                     *)
(* are_constraints_pip_friendly, on generated arguments.                   *)
(***************************************************************************)
VersionChars == { "1", ".", "a" }
Versions == SeqsUpTo(VersionChars, MaxVerLen)

\* "= ", "<= ", "< ", ">= " and three forms the code does not know:
\* "> ", "=" without the space, and no operator at all
OpForms ==
    { << "=", " " >>, << "<", "=", " " >>, << "<", " " >>, << ">", "=", " " >>,
      << ">", " " >>, << "=" >>, << >> }
RangeClauses == { op \o v : op \in OpForms, v \in Versions }
Pads == { << >>, << " " >> }
OuterPads == { << >>, << " " >>, << "\t" >> }

VulnerableRanges ==
    { l \o c \o r : l \in OuterPads, c \in RangeClauses, r \in OuterPads }
    \cup { c1 \o << "," >> \o p \o c2 :
               c1 \in RangeClauses, p \in Pads, c2 \in RangeClauses }

InvertArguments ==
    [ identifier : { << "a" >> }, package : { << "a" >>, << "B", "b" >> },
      vulnerable_range : VulnerableRanges ]

InitInvert ==
    /\ MainInit
    /\ unit \in [ fn : { "get_safe_version_constraints" }, arg : InvertArguments,
                  done : { FALSE }, ret : { None } ]

\* lines 66-97
CallGetSafeVersionConstraints ==
    /\ unit.fn = "get_safe_version_constraints"
    /\ ~unit.done
    /\ unit' = [ unit EXCEPT !.done = TRUE,
                             !.ret = get_safe_version_constraints(unit.arg) ]
    /\ UNCHANGED mainVars

NextInvert == CallGetSafeVersionConstraints

SpecInvert == InitInvert /\ [][NextInvert]_vars

SpecifierChars == { "1", ".", "a", " ", NumericOther }
SpecifierVersions == SeqsUpTo(SpecifierChars, MaxVerLen)
SpecifierOps ==
    { << "!", "=" >>, << ">" >>, << ">", "=" >>, << "<" >>, << "<", "=" >>,
      << "=" >> }
Specifiers == { op \o v : op \in SpecifierOps, v \in SpecifierVersions }
\* "<1", "<1a", "!=1a", "=1a"
SecondSpecifiers ==
    { << "<", "1" >>, << "<", "1", "a" >>, << "!", "=", "1", "a" >>,
      << "=", "1", "a" >> }

SpecifierLists ==
    { << >> }
    \cup { << c >> : c \in Specifiers }
    \cup { << c, d >> : c \in Specifiers, d \in SecondSpecifiers }
    \cup { << d, c >> : c \in Specifiers, d \in SecondSpecifiers }

FriendlyArguments == [ package : { << "a" >> }, specifiers : SpecifierLists ]

InitFriendly ==
    /\ MainInit
    /\ unit \in [ fn : { "are_constraints_pip_friendly" }, arg : FriendlyArguments,
                  done : { FALSE }, ret : { None } ]

\* lines 100-120
CallAreConstraintsPipFriendly ==
    /\ unit.fn = "are_constraints_pip_friendly"
    /\ ~unit.done
    /\ unit' = [ unit EXCEPT !.done = TRUE,
                             !.ret = are_constraints_pip_friendly(unit.arg) ]
    /\ UNCHANGED mainVars

NextFriendly == CallAreConstraintsPipFriendly

SpecFriendly == InitFriendly /\ [][NextFriendly]_vars

(***************************************************************************)
(* The claims.                                                             *)
(***************************************************************************)
Called(fn) == unit.fn = fn /\ unit.done

FourOps == { << "=" >>, << "<", "=" >>, << "<" >>, << ">", "=" >> }

Inverted(op) ==
    CASE op = << "=" >>      -> << "!", "=" >>
      [] op = << "<", "=" >> -> << ">" >>
      [] op = << "<" >>      -> << ">", "=" >>
      [] op = << ">", "=" >> -> << "<" >>

\* a version: at least one character, no whitespace, no comma
IsVersion(v) ==
    v # << >> /\ \A i \in 1..Len(v) : v[i] \notin Whitespace \cup { "," }

\* clause is '<op> <version>' for this op
IsClauseOf(clause, op) ==
    /\ startswith(clause, op \o << " " >>)
    /\ IsVersion(slice_from(clause, Len(op) + 1))

IsRecognisedClause(clause) == \E op \in FourOps : IsClauseOf(clause, op)

\* the inverted clause, operator and version with no space between
InvertedClause(clause) ==
    LET op == CHOOSE o \in FourOps : IsClauseOf(clause, o)
    IN  Inverted(op) \o slice_from(clause, Len(op) + 1)

CommaPositions(range) == { k \in 1..Len(range) : range[k] = "," }

\* what follows the only comma of a two-clause range
LastOfTwo(range) ==
    LET k == CHOOSE c \in CommaPositions(range) : TRUE
    IN  strip(SubSeq(range, k + 1, Len(range)))

DataLines == SelectSeq(stream.written, LAMBDA line : line.kind = "data")

\* C1: for a vulnerable_range that is one clause '<op> <version>', op one of
\* =, <=, <, >=, get_safe_version_constraints returns the same package and
\* exactly one specifier, the inverted operator followed at once by the version
C1_SingleClauseInverted ==
    Called("get_safe_version_constraints") =>
        \A op \in FourOps :
            IsClauseOf(unit.arg.vulnerable_range, op) =>
                unit.ret = [ package |-> unit.arg.package,
                             specifiers |->
                                 << Inverted(op) \o
                                    slice_from(unit.arg.vulnerable_range, Len(op) + 1) >> ]

\* "< 1a" was inverted to ">=1a"
C1_Witness ==
    /\ Called("get_safe_version_constraints")
    /\ unit.arg.vulnerable_range = << "<", " ", "1", "a" >>
    /\ unit.ret.specifiers = << << ">", "=", "1", "a" >> >>

\* C2 (as claimed): a PackageConstraints whose single specifier starts with
\* "!=" is always pip-friendly
C2_ExclusionAlwaysFriendly ==
    ( /\ Called("are_constraints_pip_friendly")
      /\ Len(unit.arg.specifiers) = 1
      /\ startswith(unit.arg.specifiers[1], << "!", "=" >>) )
    => unit.ret = TRUE

\* C3 (as claimed): a vulnerability whose operative clause is none of the four
\* recognised forms gets an empty specifier list, no data line, and does not
\* make the run fail
C3_UnrecognisedDropped ==
    \A i \in 1..idx :
        LET v == vulnerabilities[i]
        IN  ~IsRecognisedClause(OperativeClause(v.vulnerable_range)) =>
                /\ get_safe_version_constraints(v).specifiers = << >>
                /\ \A j \in 1..Len(DataLines) : DataLines[j].vulnerability # v
                /\ exc.at # "format"

\* C4 (as claimed): when main has returned, the stream that was opened for
\* the output is closed, whatever the path and the kind of stream
C4_AlwaysClosed == (pc = "returned" /\ stream.opened) => stream.closed

\* C4 (amended): when main has returned, the stream is closed exactly when it
\* is no terminal and main got past the --version return
C4_ClosedUnlessTtyOrVersion ==
    pc = "returned" => (stream.closed <=> (~args.version /\ stream.tty = FALSE))

\* an unexpected error, and the stream (no terminal) was closed
C4_Witness ==
    /\ pc = "returned"
    /\ exc.type = "Exception"
    /\ ret = 2
    /\ stream.closed

\* C5: once get_vulnerabilities of a source has raised a
\* SecurityConstraintsError, no further source is queried, no data line is
\* written, and main returns 1
C5_FetchErrorAborts ==
    (exc.type = "SecurityConstraintsError" /\ exc.at = "fetch") =>
        /\ queried = exc.api
        /\ DataLines = << >>
        /\ pc \in { "except", "finally", "returned" }
        /\ pc = "returned" => ret = 1

\* the first of two sources raised after main returned 1
C5_Witness ==
    /\ pc = "returned"
    /\ exc = [ type |-> "SecurityConstraintsError", at |-> "fetch", api |-> 1 ]
    /\ Len(apis) = 2
    /\ ret = 1

IgnoreSet == { config.ignore_ids[i] : i \in 1..Len(config.ignore_ids) }
HasFiltered == pc \in { "sort", "write_header", "loop" } \/ stream.written # << >>
HasSorted == pc \in { "write_header", "loop" } \/ stream.written # << >>

\* C6: the result of filter_vulnerabilities is the fetched list without the
\* vulnerabilities whose identifier is in ignore_ids, the others in their
\* order, and no data line is for an ignored identifier
C6_IgnoredNeverAppear ==
    HasFiltered =>
        /\ filtered = SelectSeq(fetched, LAMBDA v : v.identifier \notin IgnoreSet)
        /\ \A j \in 1..Len(DataLines) :
               DataLines[j].vulnerability.identifier \notin IgnoreSet

\* a run that ignored one fetched vulnerability and wrote a line for another
C6_Witness ==
    /\ pc = "returned"
    /\ ret = 0
    /\ \E i \in 1..Len(fetched) : fetched[i].identifier \in IgnoreSet
    /\ Len(filtered) < Len(fetched)
    /\ DataLines # << >>

IndexPermutations(n) ==
    { f \in [ 1..n -> 1..n ] : \A i, j \in 1..n : i # j => f[i] # f[j] }

\* out is a stable sort of in by package
IsStableSortByPackage(out, in) ==
    /\ Len(out) = Len(in)
    /\ \A i, j \in 1..Len(out) : i < j => ~str_less(out[j].package, out[i].package)
    /\ \E f \in IndexPermutations(Len(in)) :
           /\ \A i \in 1..Len(out) : out[i] = in[f[i]]
           /\ \A i, j \in 1..Len(out) :
                  (i < j /\ out[i].package = out[j].package) => f[i] < f[j]

\* sub is seq with some items left out
IsSubsequence(sub, seq) ==
    /\ Len(sub) <= Len(seq)
    /\ \E f \in [ 1..Len(sub) -> 1..Len(seq) ] :
           /\ \A i, j \in 1..Len(sub) : i < j => f[i] < f[j]
           /\ \A i \in 1..Len(sub) : sub[i] = seq[f[i]]

\* C7: sort_vulnerabilities returns its input ordered by package name
\* ascending, items of one package in the order they were fetched in, and the
\* data lines follow that order
C7_StableSortByPackage ==
    HasSorted =>
        /\ IsStableSortByPackage(vulnerabilities, filtered)
        /\ IsSubsequence([ j \in 1..Len(DataLines) |-> DataLines[j].vulnerability ],
                         vulnerabilities)

\* three vulnerabilities fetched as "a", "Bb", "Bb": the two of "Bb", which
\* differ, come out first and in their fetch order, then the one of "a"
C7_Witness ==
    /\ pc = "returned"
    /\ Len(fetched) = 3
    /\ fetched[1].package = << "a" >>
    /\ fetched[2].package = << "B", "b" >>
    /\ fetched[3].package = << "B", "b" >>
    /\ fetched[2] # fetched[3]
    /\ vulnerabilities = << fetched[2], fetched[3], fetched[1] >>
    /\ Len(DataLines) >= 2

IsComparisonClause(part) == part # << >> /\ part[1] \in { "<", ">" }
AllComparison(constraints) ==
    /\ constraints.specifiers # << >>
    /\ \A i \in 1..Len(constraints.specifiers) :
           IsComparisonClause(constraints.specifiers[i])
VersionPortion(part) == strip_chars(part, StripSet)

====
